---- MODULE Spec2Model ----
(***************************************************************************)
(* A model of create_presentation.py: the three slide helpers              *)
(* (create_title_slide, create_content_slide, create_table_slide), the     *)
(* driver main() that calls them fifteen times, saves the presentation     *)
(* and prints a summary, and the parts of the python-pptx object model     *)
(* (slides, placeholders, text frames, paragraphs, runs, tables, cells)    *)
(* that the helpers read and write.                                        *)
(*                                                                         *)
(* Strings.  A Python string is a sequence of symbols.  A symbol is one    *)
(* character; a line-break-free literal of the script is written as one    *)
(* symbol standing for its characters (L("Agenda")), so the empty string   *)
(* is << >> and "\nStruktur" is <<"\n", "Struktur">>.  Characters outside  *)
(* ASCII are spelled <U+XXXX> inside the literals.  The texts handed to    *)
(* the helpers hold no line-break character, as none of main()'s does.     *)
(*                                                                         *)
(* Lengths are EMU (English Metric Units), as in python-pptx; an argument  *)
(* of Inches() is written in tenths of an inch (2.3 in = 23).              *)
(***************************************************************************)
EXTENDS Integers, Sequences, FiniteSets, TLC

VARIABLES
    prs,        \* the Presentation object of the running process
    pc,         \* where the process is: a statement of main(), "exit" or "crash"
    k,          \* index of the next helper call (pc = "calls") or print (pc = "print")
    call,       \* the helper call made last: its arguments and the exception it raised
    disk,       \* the file system: path -> file
    console,    \* standard output of the running process, a string
    saves,      \* how many times this run called prs.save
    run,        \* which run of the script this is (1, 2, ...)
    outputs     \* history: the file each completed save wrote, in run order

vars == << prs, pc, k, call, disk, console, saves, run, outputs >>

-----------------------------------------------------------------------------
(* Bounds of the model *)

\* how many times the script is run one after the other
MaxRuns == 2
\* longest bullet list handed to create_content_slide by the harness
MaxBullets == 2
\* deepest bullet level the harness uses (python-pptx accepts 0..8)
MaxLevel == 2
\* most rows / columns of the tables the harness builds
MaxRows == 2
MaxCols == 2
\* most slides already in the presentation when the harness calls a helper
MaxPrior == 2

-----------------------------------------------------------------------------
(* Python values *)

\* a line-break-free string literal
L(s) == IF s = "" THEN << >> ELSE << s >>

\* None and a value that is not None (for the optional parameters)
None == [isNone |-> TRUE, v |-> << >>]
Some(x) == [isNone |-> FALSE, v |-> x]

\* Python truth of an optional list: None and [] are false
Truthy(o) == ~o.isNone /\ o.v # << >>

\* a (level, text) pair of bullet_points
B(level, text) == [level |-> level, text |-> text]

\* a table datum: a str or an int
S(text) == [t |-> "str", s |-> text, n |-> 0]
I(n) == [t |-> "int", s |-> << >>, n |-> n]

Digit(d) == CASE d = 0 -> "0" [] d = 1 -> "1" [] d = 2 -> "2" [] d = 3 -> "3"
              [] d = 4 -> "4" [] d = 5 -> "5" [] d = 6 -> "6" [] d = 7 -> "7"
              [] d = 8 -> "8" [] d = 9 -> "9"

RECURSIVE NatDigits(_)
NatDigits(n) == IF n < 10 THEN << Digit(n) >>
                ELSE Append(NatDigits(n \div 10), Digit(n % 10))

\* str() of an int, and the {...} of an f-string on an int
IntStr(n) == IF n < 0 THEN << "-" >> \o NatDigits(-n) ELSE NatDigits(n)

\* a slip: only a str is taken over, the text of any other value is dropped
StrOfStrOnly(x) == x.s

\* str(): the identity on a str, the decimal numeral of an int
Str(x) == IF x.t = "str" THEN x.s ELSE IntStr(x.n)

EMU_PER_INCH == 914400

\* pptx.util.Inches, on tenths of an inch: int(inches * 914400)
Inches(tenths) == (tenths * EMU_PER_INCH) \div 10

RECURSIVE SumSeq(_)
SumSeq(s) == IF s = << >> THEN 0 ELSE s[1] + SumSeq(Tail(s))

-----------------------------------------------------------------------------
(* python-pptx objects, as far as the helpers use them *)

\* a run <a:r> with the font properties the script sets ("None": inherited)
Run(text) == [text |-> text, bold |-> "None", size |-> 0, color |-> "None"]

\* CT_TextParagraph.append_text on a line-break-free string: a run that would
\* be empty is not added
AppendText(text) == IF text = << >> THEN << >> ELSE << Run(text) >>

Paragraph(runs, level) == [runs |-> runs, level |-> level]

\* a placeholder's or a new cell's text frame: one empty paragraph
EmptyFrame == << Paragraph(<< >>, 0) >>

\* TextFrame.text = text (also shape.text, placeholder.text, cell.text): the
\* content is replaced by one paragraph per line; texts here are single lines
SetFrameText(text) == << Paragraph(AppendText(text), 0) >>

RECURSIVE RunsText(_)
RunsText(runs) == IF runs = << >> THEN << >>
                  ELSE runs[1].text \o RunsText(Tail(runs))

\* _Paragraph.text (read)
ParagraphText(p) == RunsText(p.runs)

RECURSIVE JoinParagraphs(_)
JoinParagraphs(ps) ==
    IF Len(ps) = 1 THEN ParagraphText(ps[1])
    ELSE ParagraphText(ps[1]) \o << "\n" >> \o JoinParagraphs(Tail(ps))

\* TextFrame.text (read): the paragraphs' texts joined by "\n"
FrameText(tf) == JoinParagraphs(tf)

\* TextFrame.clear(): all paragraphs but the first are removed, and the runs
\* of the first (its properties, such as the level, stay)
ClearFrame(tf) == << Paragraph(<< >>, tf[1].level) >>

NoTable == [present |-> FALSE, rows |-> << >>, columns |-> << >>,
            left |-> 0, top |-> 0, width |-> 0, height |-> 0]

\* the layouts of the default template used by the helpers
TitleLayout == 0
ContentLayout == 1
TitleOnlyLayout == 5

\* whether a layout has a placeholder of idx 1 (subtitle or body)
HasPlaceholder1(layout) == layout \in {TitleLayout, ContentLayout}

\* the slide prs.slides.add_slide(layout) creates: the layout's placeholders,
\* empty.  body is placeholders[1]; << >> when the layout has none
NewSlide(layout) ==
    [layout |-> layout,
     title |-> EmptyFrame,
     body |-> IF HasPlaceholder1(layout) THEN EmptyFrame ELSE << >>,
     table |-> NoTable]

\* a slip: a title-only slide is not added when there is a slide to reuse
add_slide_reusing(p, layout) ==
    IF layout = TitleOnlyLayout /\ p.slides # << >> THEN p
    ELSE [p EXCEPT !.slides = Append(@, NewSlide(layout))]

\* a slip: the new slide is put first
add_slide_first(p, layout) == [p EXCEPT !.slides = << NewSlide(layout) >> \o @]

\* prs.slides.add_slide(prs.slide_layouts[layout]): the new slide goes last
add_slide(p, layout) == [p EXCEPT !.slides = Append(@, NewSlide(layout))]

\* the slide the helper is working on: the one it has just added
LastSlide(p) == p.slides[Len(p.slides)]

SetLast(p, slide) == [p EXCEPT !.slides[Len(p.slides)] = slide]

\* slide.shapes.title.text = title
SetTitle(p, title) ==
    SetLast(p, [LastSlide(p) EXCEPT !.title = SetFrameText(title)])

-----------------------------------------------------------------------------
(* The helpers.  Each returns the presentation as the call leaves it and the *)
(* exception it raised ("None": it returned).  A slide is mutated in place,  *)
(* so what a helper did before raising stays in the presentation.            *)

Result(p, exc) == [prs |-> p, exc |-> exc]

\* a slip: the subtitle carries the number of the run (as a date would)
create_title_slide_dated(p, title, subtitle) ==
    LET p1 == add_slide(p, TitleLayout)
        p2 == SetTitle(p1, title)
        p3 == SetLast(p2, [LastSlide(p2) EXCEPT
                             !.body = SetFrameText(subtitle \o IntStr(run))])
    IN  Result(p3, "None")

\* create_title_slide(prs, title, subtitle)
create_title_slide(p, title, subtitle) ==
    LET p1 == add_slide(p, TitleLayout)
        p2 == SetTitle(p1, title)
        p3 == SetLast(p2, [LastSlide(p2) EXCEPT !.body = SetFrameText(subtitle)])
    IN  Result(p3, "None")

\* a slip: every bullet gets a new paragraph, the first one too
RECURSIVE BulletLoopAlwaysAdding(_, _, _)
BulletLoopAlwaysAdding(tf, bullet_points, i) ==
    IF i > Len(bullet_points) THEN tf
    ELSE LET tf1 == Append(tf, Paragraph(<< >>, 0))
             p == [tf1[Len(tf1)] EXCEPT !.runs = AppendText(bullet_points[i].text),
                                        !.level = bullet_points[i].level]
         IN  BulletLoopAlwaysAdding([tf1 EXCEPT ![Len(tf1)] = p], bullet_points, i + 1)

\* the loop of create_content_slide over enumerate(bullet_points); i counts
\* from 1 here (Python's i + 1).  p.text = text replaces the paragraph's runs
RECURSIVE BulletLoop(_, _, _)
BulletLoop(tf, bullet_points, i) ==
    IF i > Len(bullet_points) THEN tf
    ELSE LET tf1 == IF i = 1 THEN tf ELSE Append(tf, Paragraph(<< >>, 0))
             at == IF i = 1 THEN 1 ELSE Len(tf1)
             p == [tf1[at] EXCEPT !.runs = AppendText(bullet_points[i].text),
                                  !.level = bullet_points[i].level]
         IN  BulletLoop([tf1 EXCEPT ![at] = p], bullet_points, i + 1)

\* create_content_slide(prs, title, bullet_points=None)
create_content_slide(p, title, bullet_points) ==
    LET p1 == add_slide(p, ContentLayout)
        p2 == SetTitle(p1, title)
        tf == ClearFrame(LastSlide(p2).body)
        p3 == IF Truthy(bullet_points)
              THEN SetLast(p2, [LastSlide(p2) EXCEPT
                                  !.body = BulletLoop(tf, bullet_points.v, 1)])
              ELSE p2
    IN  Result(p3, "None")

\* a cell of a new table
EmptyCell == [text_frame |-> EmptyFrame, fill |-> "None", fore_color |-> "None"]

\* shapes.add_table(rows, cols, left, top, width, height).table: rows x cols
\* empty cells; the columns share the width, the last one taking the rest
add_table(rows, cols, left, top, width, height) ==
    [present |-> TRUE,
     rows |-> [i \in 1..rows |-> [j \in 1..cols |-> EmptyCell]],
     columns |-> [j \in 1..cols |->
                    IF j = cols THEN width - (cols - 1) * (width \div cols)
                    ELSE width \div cols],
     left |-> left, top |-> top, width |-> width, height |-> height]

\* a slip: the widths are set from the second column on
RECURSIVE ColWidthLoopOffByOne(_, _, _)
ColWidthLoopOffByOne(table, col_widths, i) ==
    IF i > Len(col_widths) THEN [table |-> table, exc |-> "None"]
    ELSE IF i + 1 > Len(table.columns) THEN [table |-> table, exc |-> "IndexError"]
    ELSE ColWidthLoopOffByOne([table EXCEPT !.columns[i + 1] = Inches(col_widths[i])],
                              col_widths, i + 1)

\* the loop over enumerate(col_widths): table.columns[i].width = Inches(width).
\* The loop variable reuses the name width; the table was created before
RECURSIVE ColWidthLoop(_, _, _)
ColWidthLoop(table, col_widths, i) ==
    IF i > Len(col_widths) THEN [table |-> table, exc |-> "None"]
    ELSE IF i > Len(table.columns) THEN [table |-> table, exc |-> "IndexError"]
    ELSE ColWidthLoop([table EXCEPT !.columns[i] = Inches(col_widths[i])],
                      col_widths, i + 1)

SetRunFont(runs, bold, color, size) ==
    [r \in 1..Len(runs) |-> [runs[r] EXCEPT !.bold = bold, !.color = color, !.size = size]]

SetRunSize(runs, size) ==
    [r \in 1..Len(runs) |-> [runs[r] EXCEPT !.size = size]]

\* a slip: the header format is given to the cells of every row
FormatCellAllRows(i, cell_text) ==
    LET tf == SetFrameText(Str(cell_text))
    IN  [text_frame |-> [q \in 1..Len(tf) |->
                           [tf[q] EXCEPT !.runs = SetRunFont(@, "True", "FFFFFF", 12)]],
         fill |-> "solid", fore_color |-> "4472C4"]

\* the body of the inner loop: cell.text = str(cell_text), then the format of
\* the header row (Python's i == 0) or of a data row, on the runs of the cell
FormatCell(i, cell_text) ==
    LET tf == SetFrameText(Str(cell_text))
    IN  IF i = 1
        THEN [text_frame |-> [q \in 1..Len(tf) |->
                                [tf[q] EXCEPT !.runs = SetRunFont(@, "True", "FFFFFF", 12)]],
              fill |-> "solid", fore_color |-> "4472C4"]
        ELSE [text_frame |-> [q \in 1..Len(tf) |->
                                [tf[q] EXCEPT !.runs = SetRunSize(@, 11)]],
              fill |-> "None", fore_color |-> "None"]

\* the inner loop, over enumerate(row), on the cells of table row i; j counts
\* from 1.  table.rows[i].cells[j] raises IndexError for a j past the columns
RECURSIVE FillRow(_, _, _, _)
FillRow(cells, row, i, j) ==
    IF j > Len(row) THEN [cells |-> cells, exc |-> "None"]
    ELSE IF j > Len(cells) THEN [cells |-> cells, exc |-> "IndexError"]
    ELSE FillRow([cells EXCEPT ![j] = FormatCell(i, row[j])], row, i, j + 1)

\* the outer loop, over enumerate(data); i counts from 1.  What was written
\* before an exception stays written
RECURSIVE FillCells(_, _, _)
FillCells(table, data, i) ==
    IF i > Len(data) THEN [table |-> table, exc |-> "None"]
    ELSE LET r == FillRow(table.rows[i], data[i], i, 1)
             t == [table EXCEPT !.rows[i] = r.cells]
         IN  IF r.exc # "None" THEN [table |-> t, exc |-> r.exc]
             ELSE FillCells(t, data, i + 1)

\* create_table_slide(prs, title, data, col_widths=None)
create_table_slide(p, title, data, col_widths) ==
    LET p1 == add_slide(p, TitleOnlyLayout)
        p2 == SetTitle(p1, title)
        put(table) == SetLast(p2, [LastSlide(p2) EXCEPT !.table = table])
    IN  IF data = << >> THEN Result(p2, "IndexError")       \* data[0]
        ELSE
        LET rows == Len(data)
            cols == Len(data[1])
            left == Inches(10)
            top == Inches(20)
            width == Inches(80)
            height == Inches(8 * rows)
            table == add_table(rows, cols, left, top, width, height)
            sized == IF Truthy(col_widths) THEN ColWidthLoop(table, col_widths.v, 1)
                     ELSE [table |-> table, exc |-> "None"]
            filled == FillCells(sized.table, data, 1)
        IN  IF sized.exc # "None" THEN Result(put(sized.table), sized.exc)
            ELSE Result(put(filled.table), filled.exc)

\* one call of a helper with the arguments of the call record c
CallHelper(p, c) ==
    CASE c.helper = "create_title_slide" -> create_title_slide(p, c.title, c.subtitle)
      [] c.helper = "create_content_slide" -> create_content_slide(p, c.title, c.bullet_points)
      [] c.helper = "create_table_slide" -> create_table_slide(p, c.title, c.data, c.col_widths)

-----------------------------------------------------------------------------
(* main() *)

\* main(): lines 205-209
table_data ==
    <<
       << S(L("")), S(L("Predicted: nein")), S(L("Predicted: ja")) >>,
       << S(L("Actual: nein")), S(L("5466 (TN)")), S(L("193 (FP)")) >>,
       << S(L("Actual: ja")), S(L("300 (FN)")), S(L("36 (TP)")) >>
    >>

\* main(): lines 276-281
comparison_data ==
    <<
       << S(L("Modell")), S(L("Accuracy")), S(L("Precision")), S(L("Recall")), S(L("TP")), S(L("Bewertung")) >>,
       << S(L("Decision Tree")), S(L("91,78%")), S(L("15,72%")), S(L("9,33%")), S(L("36")), S(L("<U+2B50> GEW<U+00C4>HLT")) >>,
       << S(L("Logistic Regression")), S(L("94,40%")), S(L("0%")), S(L("0%")), S(L("0")), S(L("<U+274C> Unbrauchbar")) >>,
       << S(L("Naive Bayes")), S(L("94,44%")), S(L("50,00%")), S(L("0,89%")), S(L("3")), S(L("<U+26A0> Zu konservativ")) >>
    >>

\* main(): the helper calls of lines 88-348, in program order.  Column widths
\* are written in tenths of an inch (2.3 in = 23).
MainCalls ==
    <<
       \* Folie 1: lines 88-92
       [ helper |-> "create_title_slide",
         title |-> L("Data Mining: Betrugserkennung"),
         subtitle |-> L("Klassifikation von E-Commerce Bestellungen"),
         bullet_points |-> None,
         data |-> << >>,
         col_widths |-> None ],
       \* Folie 2: lines 95-106
       [ helper |-> "create_content_slide",
         title |-> L("Agenda"),
         subtitle |-> L(""),
         bullet_points |-> Some(<<
            B(0, L("1. Einf<U+00FC>hrung und Problemstellung")),
            B(0, L("2. Datenanalyse und -vorbereitung (CRISP-DM)")),
            B(0, L("3. Attributanalyse und Feature Engineering")),
            B(0, L("4. Modellauswahl und Training")),
            B(0, L("5. Modellbewertung und Optimierung")),
            B(0, L("6. Vorhersage und Fazit"))
         >>),
         data |-> << >>,
         col_widths |-> None ],
       \* Folie 3: lines 109-124
       [ helper |-> "create_content_slide",
         title |-> L("1. Einf<U+00FC>hrung und Problemstellung"),
         subtitle |-> L(""),
         bullet_points |-> Some(<<
            B(0, L("Szenario: Betrugserkennung im Online-Handel")),
            B(1, L("Herausforderung: Ware gegen Geld nicht direkt umsetzbar")),
            B(1, L("Risiko: Bestellungen ohne Zahlungseingang")),
            B(0, L("Data Mining Aufgabe:")),
            B(1, L("Typ: Klassifikationsproblem (<U+00DC>berwachtes Lernen)")),
            B(1, L("Zielattribut: TARGET_BETRUG (diskret: ja/nein)")),
            B(0, L("Datensatz: 30.000 E-Commerce Bestellungen")),
            B(1, L("Training: 24.000 Datens<U+00E4>tze (80% - Holdout-Methode)")),
            B(1, L("Test: 6.000 Datens<U+00E4>tze (20%)")),
            B(1, L("Klassifizierung: 20.000 neue Bestellungen"))
         >>),
         data |-> << >>,
         col_widths |-> None ],
       \* Folie 4: lines 127-143
       [ helper |-> "create_content_slide",
         title |-> L("2. Datenanalyse (CRISP-DM: Data Understanding)"),
         subtitle |-> L(""),
         bullet_points |-> Some(<<
            B(0, L("Explorative Datenanalyse der Trainingsdaten:")),
            B(1, L("30.000 Bestellungen mit 43 Attributen")),
            B(1, L("Zielattribut TARGET_BETRUG analysiert")),
            B(0, L("Zentrale Erkenntnis: Stark unbalancierte Klassen")),
            B(1, L("Nur 1.746 Betrugsf<U+00E4>lle (5,82%)")),
            B(1, L("28.254 legitime Bestellungen (94,18%)")),
            B(0, L("Implikation f<U+00FC>r Data Mining:")),
            B(1, L("<U+274C> Accuracy allein als G<U+00FC>tema<U+00DF> ungeeignet")),
            B(1, L("<U+2713> Precision & Recall sind entscheidend")),
            B(1, L("Modell k<U+00F6>nnte \"immer nein\" vorhersagen (94% Accuracy!)")),
            B(1, L("<U+2192> Betrugsf<U+00E4>lle w<U+00FC>rden nicht erkannt werden"))
         >>),
         data |-> << >>,
         col_widths |-> None ],
       \* Folie 5: lines 146-163
       [ helper |-> "create_content_slide",
         title |-> L("3. Attributanalyse & Feature Engineering (Data Preparation)"),
         subtitle |-> L(""),
         bullet_points |-> Some(<<
            B(0, L("Analyse der Artikelnummer-Attribute (ANUMMER_01 bis ANUMMER_10):")),
            B(1, L("Repr<U+00E4>sentieren bestellte Artikel (Artikelnummern)")),
            B(1, L("Datentyp: Diskret (kategorisch)")),
            B(0, L("Identifizierte Probleme:")),
            B(1, L("<U+274C> Limitation: Maximal 10 Artikel erfassbar")),
            B(1, L("<U+274C> Bei >10 Artikeln: Datenverlust")),
            B(1, L("<U+274C> ANUMMER_02 bis ANUMMER_10 gr<U+00F6><U+00DF>tenteils NULL")),
            B(1, L("<U+274C> Hohe Dimensionalit<U+00E4>t mit vielen Leereintr<U+00E4>gen")),
            B(0, L("Feature Engineering - Optimierungsansatz:")),
            B(1, L("<U+2713> Zusammenf<U+00FC>hrung zu ANUMMER_LIST (aggregiert)")),
            B(1, L("<U+2713> Reduzierung der Dimensionalit<U+00E4>t (10<U+2192>1 Attribut)")),
            B(1, L("<U+2713> Bessere Datenqualit<U+00E4>t f<U+00FC>r ML-Algorithmen"))
         >>),
         data |-> << >>,
         col_widths |-> None ],
       \* Folie 6: lines 166-182
       [ helper |-> "create_content_slide",
         title |-> L("4. Modellauswahl und Training (CRISP-DM: Modeling)"),
         subtitle |-> L(""),
         bullet_points |-> Some(<<
            B(0, L("Implementierung: KNIME Analytics Platform")),
            B(0, L("Trainingsmethode: Holdout-Methode")),
            B(1, L("80% Trainingsdaten (24.000 Datens<U+00E4>tze)")),
            B(1, L("20% Testdaten (6.000 Datens<U+00E4>tze)")),
            B(0, L("Drei Klassifikationsverfahren (<U+00DC>berwachtes Lernen):")),
            B(1, L("1. Decision Tree (Entscheidungsbaum, Gini Index)")),
            B(2, L("Trennscharfe Entscheidungsregeln")),
            B(1, L("2. Logistic Regression (Logistische Regression)")),
            B(2, L("Lineare Trennung der Klassen")),
            B(1, L("3. Naive Bayes Classifier")),
            B(2, L("Probabilistischer Ansatz, bedingte Wahrscheinlichkeiten"))
         >>),
         data |-> << >>,
         col_widths |-> None ],
       \* Folie 7: lines 185-202
       [ helper |-> "create_content_slide",
         title |-> L("5. Modellbewertung (CRISP-DM: Evaluation)"),
         subtitle |-> L(""),
         bullet_points |-> Some(<<
            B(0, L("Bewertung mit Konfusionsmatrix:")),
            B(1, L("True Positive (TP): Betrug korrekt als Betrug erkannt")),
            B(1, L("True Negative (TN): Kein Betrug korrekt als legitim erkannt")),
            B(1, L("False Positive (FP): Legitim f<U+00E4>lschlich als Betrug erkannt")),
            B(1, L("False Negative (FN): Betrug f<U+00E4>lschlich als legitim erkannt")),
            B(0, L("G<U+00FC>tekriterien:")),
            B(1, L("Accuracy = (TP+TN) / Gesamt")),
            B(2, L("Gesamtgenauigkeit aller Vorhersagen")),
            B(1, L("Precision = TP / (TP+FP)")),
            B(2, L("Wie viele Betrugsvorhersagen waren korrekt?")),
            B(1, L("Recall = TP / (TP+FN)")),
            B(2, L("Wie viele Betrugsf<U+00E4>lle wurden erkannt?"))
         >>),
         data |-> << >>,
         col_widths |-> None ],
       \* Folie 8: lines 211-216
       [ helper |-> "create_table_slide",
         title |-> L("5a. Decision Tree - Confusion Matrix"),
         subtitle |-> L(""),
         bullet_points |-> None,
         data |-> table_data,
         col_widths |-> Some(<< 30, 25, 25 >>) ],
       \* Folie 9: lines 219-234
       [ helper |-> "create_content_slide",
         title |-> L("5a. Decision Tree - Metriken"),
         subtitle |-> L(""),
         bullet_points |-> Some(<<
            B(0, L("Berechnete G<U+00FC>tekriterien:")),
            B(1, L("Accuracy: 91,78% = (5466+36) / 6000")),
            B(1, L("Precision: 15,72% = 36 / (36+193)")),
            B(1, L("Recall: 9,33% = 36 / (36+300)")),
            B(0, L("Interpretation:")),
            B(1, L("<U+2713> Erkennt tats<U+00E4>chlich Betrugsf<U+00E4>lle (36 TP)")),
            B(1, L("<U+2713> Besser als \"immer nein\" Baseline")),
            B(1, L("<U+26A0> Hohe False-Positive Rate (193 Fehlalarme)")),
            B(1, L("<U+26A0> Niedriger Recall (300 FN, 89% nicht erkannt)")),
            B(0, L("Bewertung: Einziges Modell mit relevantem Recall"))
         >>),
         data |-> << >>,
         col_widths |-> None ],
       \* Folie 10: lines 237-253
       [ helper |-> "create_content_slide",
         title |-> L("5b. Logistic Regression - Ergebnisse"),
         subtitle |-> L(""),
         bullet_points |-> Some(<<
            B(0, L("Confusion Matrix:")),
            B(1, L("TN: 5666, FP: 0, FN: 336, TP: 0")),
            B(1, L("Alle Vorhersagen: \"nein\" (kein Betrug)")),
            B(0, L("Berechnete Metriken:")),
            B(1, L("Accuracy: 94,40% = 5666 / 6000")),
            B(1, L("Precision: 0% (keine Betrugsvorhersagen)")),
            B(1, L("Recall: 0% = 0 / 336 (alle Betrugsf<U+00E4>lle <U+00FC>bersehen)")),
            B(0, L("<U+274C> Fazit: Modell unbrauchbar f<U+00FC>r Betrugserkennung")),
            B(1, L("Paradox: Hohe Accuracy durch Class Imbalance")),
            B(1, L("Modell hat aus Unbalance gelernt, immer \"nein\" zu sagen")),
            B(1, L("Kein einziger Betrugsfall erkannt (0 TP)"))
         >>),
         data |-> << >>,
         col_widths |-> None ],
       \* Folie 11: lines 256-273
       [ helper |-> "create_content_slide",
         title |-> L("5c. Naive Bayes - Ergebnisse"),
         subtitle |-> L(""),
         bullet_points |-> Some(<<
            B(0, L("Confusion Matrix:")),
            B(1, L("TN: 5663, FP: 3, FN: 333, TP: 3")),
            B(0, L("Berechnete Metriken:")),
            B(1, L("Accuracy: 94,44% = (5663+3) / 6000")),
            B(1, L("Precision: 50,00% = 3 / (3+3)")),
            B(1, L("Recall: 0,89% = 3 / (3+333)")),
            B(0, L("Bewertung:")),
            B(1, L("<U+2713> Hohe Precision bei Betrugsvorhersagen (50%)")),
            B(1, L("<U+2713> Sehr wenig Fehlalarme (nur 3 FP)")),
            B(1, L("<U+274C> Extrem niedriger Recall (0,89%)")),
            B(1, L("<U+274C> Erkennt fast keine Betrugsf<U+00E4>lle (nur 3 von 336)")),
            B(0, L("Fazit: Zu konservativ, praktisch unbrauchbar"))
         >>),
         data |-> << >>,
         col_widths |-> None ],
       \* Folie 12: lines 283-288
       [ helper |-> "create_table_slide",
         title |-> L("5d. Vergleichende Modellbewertung"),
         subtitle |-> L(""),
         bullet_points |-> None,
         data |-> comparison_data,
         col_widths |-> Some(<< 23, 13, 13, 13, 8, 20 >>) ],
       \* Folie 13: lines 291-308
       [ helper |-> "create_content_slide",
         title |-> L("5e. Ma<U+00DF>nahmen zur Ergebnisverbesserung"),
         subtitle |-> L(""),
         bullet_points |-> Some(<<
            B(0, L("Hauptproblem: Class Imbalance (5,82% Betrug)")),
            B(0, L("Resampling-Techniken:")),
            B(1, L("Undersampling: Reduzierung der Mehrheitsklasse")),
            B(2, L("Zuf<U+00E4>llige Auswahl von legitimen Bestellungen")),
            B(1, L("SMOTE (Synthetic Minority Over-sampling Technique)")),
            B(2, L("Synthetische Generierung zus<U+00E4>tzlicher Betrugsf<U+00E4>lle")),
            B(0, L("Algorithmus-Optimierung:")),
            B(1, L("Hyperparameter-Tuning (Complexity_Penalty, Minimum_Support)")),
            B(1, L("Cost-Sensitive Learning (h<U+00F6>here Kosten f<U+00FC>r FN)")),
            B(0, L("Weitere Ans<U+00E4>tze:")),
            B(1, L("Ensemble-Methoden (Random Forest, XGBoost)")),
            B(1, L("Feature Engineering (ANUMMER_LIST verwenden)"))
         >>),
         data |-> << >>,
         col_widths |-> None ],
       \* Folie 14: lines 311-328
       [ helper |-> "create_content_slide",
         title |-> L("6. Vorhersage (CRISP-DM: Deployment)"),
         subtitle |-> L(""),
         bullet_points |-> Some(<<
            B(0, L("Gew<U+00E4>hltes Modell f<U+00FC>r Produktivbetrieb:")),
            B(1, L("<U+2713> Decision Tree (Entscheidungsbaum)")),
            B(0, L("Begr<U+00FC>ndung der Auswahl:")),
            B(1, L("Einziges Modell mit relevantem Recall (9,33%)")),
            B(1, L("Erkennt tats<U+00E4>chlich Betrugsf<U+00E4>lle (36 TP)")),
            B(1, L("Trade-off: Niedrigere Accuracy, aber Betrugserkennnung")),
            B(0, L("Anwendung auf Klassifizierungsdaten:")),
            B(1, L("20.000 neue Bestellungen klassifiziert")),
            B(1, L("Datei: Klassifizierungsdaten-tree-predictions.csv")),
            B(0, L("Kritische Einsch<U+00E4>tzung:")),
            B(1, L("Performance noch verbesserungsw<U+00FC>rdig")),
            B(1, L("Optimierungsma<U+00DF>nahmen empfohlen (Resampling, etc.)"))
         >>),
         data |-> << >>,
         col_widths |-> None ],
       \* Folie 15: lines 331-348
       [ helper |-> "create_content_slide",
         title |-> L("Zusammenfassung und Ausblick"),
         subtitle |-> L(""),
         bullet_points |-> Some(<<
            B(0, L("Zentrale Erkenntnisse:")),
            B(1, L("Class Imbalance gr<U+00F6><U+00DF>te Herausforderung bei Betrugserkennung")),
            B(1, L("Accuracy irref<U+00FC>hrend bei unbalancierten Daten")),
            B(1, L("Precision & Recall entscheidende G<U+00FC>tekriterien")),
            B(1, L("CRISP-DM-Prozess systematisch durchgef<U+00FC>hrt")),
            B(0, L("Durchgef<U+00FC>hrte Schritte:")),
            B(1, L("<U+2713> Data Understanding (Class Imbalance identifiziert)")),
            B(1, L("<U+2713> Data Preparation (ANUMMER Feature Engineering)")),
            B(1, L("<U+2713> Modeling (3 Klassifikationsverfahren trainiert)")),
            B(1, L("<U+2713> Evaluation (Konfusionsmatrix, Metriken)")),
            B(1, L("<U+2713> Deployment (Decision Tree f<U+00FC>r Vorhersage gew<U+00E4>hlt)")),
            B(0, L("Vielen Dank f<U+00FC>r Ihre Aufmerksamkeit!"))
         >>),
         data |-> << >>,
         col_widths |-> None ]
    >>

\* main(): output_file
output_file == "Data_Mining_Betrugserkennung_Praesentation.pptx"

\* another name in the same directory, which main() never uses
other_file == "Data_Mining_Betrugserkennung_Praesentation (1).pptx"

Paths == {output_file, other_file}

\* no Presentation object yet
NoPrs == [slide_width |-> 0, slide_height |-> 0, slides |-> << >>]

\* prs = Presentation(); prs.slide_width = Inches(10); prs.slide_height =
\* Inches(7.5): the default template, which has no slide
Presentation == [slide_width |-> Inches(100), slide_height |-> Inches(75),
                 slides |-> << >>]

NoCall == [helper |-> "none", title |-> << >>, subtitle |-> << >>,
           bullet_points |-> None, data |-> << >>, col_widths |-> None,
           before |-> << >>, exc |-> "None"]

\* the record of a call: its arguments, the slides before it, its exception
CallRecord(c, p, exc) ==
    [helper |-> c.helper, title |-> c.title, subtitle |-> c.subtitle,
     bullet_points |-> c.bullet_points, data |-> c.data,
     col_widths |-> c.col_widths, before |-> p.slides, exc |-> exc]

\* the arguments of main()'s print statements, in order; the first three are
\* f-strings
Prints(p) ==
    << L("<U+2713> Pr<U+00E4>sentation erfolgreich erstellt: ") \o L(output_file),
       L("<U+2713> Anzahl Folien: ") \o IntStr(Len(p.slides)),
       << "\n" >> \o L("Struktur nach CRISP-DM:"),
       L("  1. Einf<U+00FC>hrung und Problemstellung"),
       L("  2. Data Understanding (Class Imbalance)"),
       L("  3. Data Preparation (Feature Engineering)"),
       L("  4. Modeling (3 Klassifikationsverfahren)"),
       L("  5. Evaluation (Konfusionsmatrix, Metriken)"),
       L("  6. Deployment (Vorhersage)") >>

\* a slip: print(s, end="")
print_no_newline(out, s) == out \o s

\* print(s): s and a newline go to standard output
print(out, s) == out \o s \o << "\n" >>

\* a slip: the exception is caught and ignored, main() goes on to its prints
Swallowed == "print"

\* where control goes when a statement of main() raises: main() has no
\* try/except and neither has its caller, so the process ends
Unhandled == "crash"

(* Files *)

NoFile == [exists |-> FALSE, kind |-> "none", slides |-> << >>,
           slide_width |-> 0, slide_height |-> 0, mtime |-> 0]

\* a file that is no presentation (a truncated or foreign file)
Garbage(t) == [exists |-> TRUE, kind |-> "garbage", slides |-> << >>,
               slide_width |-> 0, slide_height |-> 0, mtime |-> t]

\* the file prs.save writes at time t
PptxFile(p, t) == [exists |-> TRUE, kind |-> "pptx", slides |-> p.slides,
                   slide_width |-> p.slide_width, slide_height |-> p.slide_height,
                   mtime |-> t]

\* a slip: an existing file is kept and the presentation goes to another name
SaveFileNoClobber(d, p, t) ==
    IF d[output_file].exists THEN [d EXCEPT ![other_file] = PptxFile(p, t)]
    ELSE [d EXCEPT ![output_file] = PptxFile(p, t)]

\* prs.save(output_file): the file at output_file is replaced
SaveFile(d, p, t) == [d EXCEPT ![output_file] = PptxFile(p, t)]

\* prs.save(output_file) failing after the file was opened for writing
TruncateFile(d, t) == [d EXCEPT ![output_file] = Garbage(t)]

\* the presentation after the first n helper calls of main()
RECURSIVE RunCalls(_, _)
RunCalls(p, n) == IF n = 0 THEN p
                  ELSE CallHelper(RunCalls(p, n - 1), MainCalls[n]).prs

\* what may be at a path before the first run: nothing, a file that is no
\* presentation, a presentation of one slide, a presentation of three slides
InitialFiles ==
    { NoFile, Garbage(0), PptxFile(RunCalls(Presentation, 1), 0),
      PptxFile(RunCalls(Presentation, 3), 0) }

Init ==
    /\ run = 1
    /\ prs = NoPrs
    /\ pc = "Presentation"
    /\ k = 0
    /\ call = NoCall
    /\ disk \in [Paths -> InitialFiles]
    /\ console = << >>
    /\ saves = 0
    /\ outputs = << >>

\* lines 83-85
Construct ==
    /\ pc = "Presentation"
    /\ prs' = Presentation
    /\ pc' = "calls"
    /\ k' = 1
    /\ UNCHANGED << call, disk, console, saves, run, outputs >>

\* what main() does with the result r of its k-th helper call: go on to the
\* next statement, or end on the exception
MainReturn(r) ==
    /\ prs' = r.prs
    /\ call' = CallRecord(MainCalls[k], prs, r.exc)
    /\ IF r.exc # "None" THEN pc' = Unhandled /\ k' = k
       ELSE IF k = Len(MainCalls) THEN pc' = "save" /\ k' = 0
       ELSE pc' = "calls" /\ k' = k + 1
    /\ UNCHANGED << disk, console, saves, run, outputs >>

\* the k-th helper call of main() is a call of create_title_slide
MainCreateTitleSlide ==
    /\ pc = "calls"
    /\ MainCalls[k].helper = "create_title_slide"
    /\ MainReturn(create_title_slide(prs, MainCalls[k].title, MainCalls[k].subtitle))

\* the k-th helper call of main() is a call of create_content_slide
MainCreateContentSlide ==
    /\ pc = "calls"
    /\ MainCalls[k].helper = "create_content_slide"
    /\ MainReturn(create_content_slide(prs, MainCalls[k].title,
                                       MainCalls[k].bullet_points))

\* the k-th helper call of main() is a call of create_table_slide
MainCreateTableSlide ==
    /\ pc = "calls"
    /\ MainCalls[k].helper = "create_table_slide"
    /\ MainReturn(create_table_slide(prs, MainCalls[k].title, MainCalls[k].data,
                                     MainCalls[k].col_widths))

\* line 352, the save succeeds
SaveOk ==
    /\ pc = "save"
    /\ disk' = SaveFile(disk, prs, run)
    /\ saves' = saves + 1
    /\ outputs' = Append(outputs, disk'[output_file])
    /\ pc' = "print"
    /\ k' = 1
    /\ UNCHANGED << prs, call, console, run >>

\* line 352, the save raises before it touched the file (an unwritable
\* destination)
SaveRaises ==
    /\ pc = "save"
    /\ saves' = saves + 1
    /\ pc' = Unhandled
    /\ UNCHANGED << prs, k, call, disk, console, run, outputs >>

\* line 352, the save raises while writing (a full disk)
SaveRaisesPartway ==
    /\ pc = "save"
    /\ disk' = TruncateFile(disk, run)
    /\ saves' = saves + 1
    /\ pc' = Unhandled
    /\ UNCHANGED << prs, k, call, console, run, outputs >>

\* lines 353-361, one print statement
PrintStmt ==
    /\ pc = "print"
    /\ console' = print(console, Prints(prs)[k])
    /\ IF k = Len(Prints(prs)) THEN pc' = "exit" /\ k' = 0
       ELSE pc' = "print" /\ k' = k + 1
    /\ UNCHANGED << prs, call, disk, saves, run, outputs >>

\* the script is run again: a new process, the same file system
Rerun ==
    /\ pc \in {"exit", "crash"}
    /\ run < MaxRuns
    /\ run' = run + 1
    /\ prs' = NoPrs
    /\ pc' = "Presentation"
    /\ k' = 0
    /\ call' = NoCall
    /\ console' = << >>
    /\ saves' = 0
    /\ UNCHANGED << disk, outputs >>

Next ==
    \/ Construct
    \/ MainCreateTitleSlide
    \/ MainCreateContentSlide
    \/ MainCreateTableSlide
    \/ SaveOk
    \/ SaveRaises
    \/ SaveRaisesPartway
    \/ PrintStmt
    \/ Rerun

Spec == Init /\ [][Next]_vars

-----------------------------------------------------------------------------
(* The helpers on their own: one call of a helper, with arguments drawn from *)
(* bounded sets, on a presentation that already has some slides.             *)

HarnessTexts == { << >>, << "a" >>, << "a", "b" >> }

BulletPairs == { B(level, text) : level \in 0..MaxLevel, text \in HarnessTexts }

\* None, every list of up to MaxBullets pairs, and the lists main() passes
BulletInputs ==
    {None}
    \cup { Some(bl) : bl \in UNION { [1..n -> BulletPairs] : n \in 0..MaxBullets } }
    \cup { MainCalls[n].bullet_points :
             n \in { m \in 1..Len(MainCalls) : MainCalls[m].helper = "create_content_slide" } }

\* the data of the harness's tables: the empty str, a str, two ints
CellValues == << S(<< >>), S(<< "a", "b" >>), I(7), I(-12) >>

\* the row lengths of a table: no row at all, or a first row of 1..MaxCols
\* columns and further rows of any length up to MaxCols
TableShapes ==
    { sh \in UNION { [1..r -> 0..MaxCols] : r \in 0..MaxRows } :
        Len(sh) > 0 => sh[1] > 0 }

\* the table of shape sh whose data run through CellValues from the q-th on
TableOf(sh, q) ==
    [i \in 1..Len(sh) |->
        [j \in 1..sh[i] |-> CellValues[((i + j + q) % Len(CellValues)) + 1]]]

\* rectangular and ragged tables, the empty list, and the tables main() passes
TableInputs ==
    { TableOf(sh, q) : sh \in TableShapes, q \in 1..Len(CellValues) }
    \cup {table_data, comparison_data}

\* None, lists of 0..MaxCols+1 widths, and the lists main() passes
ColWidthInputs ==
    {None}
    \cup { Some([j \in 1..n |-> 10 + 5 * j]) : n \in 0..(MaxCols + 1) }
    \cup { MainCalls[n].col_widths :
             n \in { m \in 1..Len(MainCalls) : MainCalls[m].helper = "create_table_slide" } }

HarnessInit ==
    /\ run = 1
    /\ prs \in { RunCalls(Presentation, n) : n \in 0..MaxPrior }
    /\ pc = "harness"
    /\ k = 0
    /\ call = NoCall
    /\ disk = [p \in Paths |-> NoFile]
    /\ console = << >>
    /\ saves = 0
    /\ outputs = << >>

\* the harness records the call c and its result r
HarnessReturn(c, r) ==
    /\ prs' = r.prs
    /\ call' = CallRecord(c, prs, r.exc)
    /\ pc' = IF r.exc = "None" THEN "returned" ELSE "raised"
    /\ UNCHANGED << k, disk, console, saves, run, outputs >>

HarnessTitleSlide ==
    /\ pc = "harness"
    /\ \E title \in HarnessTexts, subtitle \in HarnessTexts :
          HarnessReturn([helper |-> "create_title_slide", title |-> title,
                         subtitle |-> subtitle, bullet_points |-> None,
                         data |-> << >>, col_widths |-> None],
                        create_title_slide(prs, title, subtitle))

HarnessContentSlide ==
    /\ pc = "harness"
    /\ \E title \in HarnessTexts, bullet_points \in BulletInputs :
          HarnessReturn([helper |-> "create_content_slide", title |-> title,
                         subtitle |-> << >>, bullet_points |-> bullet_points,
                         data |-> << >>, col_widths |-> None],
                        create_content_slide(prs, title, bullet_points))

HarnessTableSlide ==
    /\ pc = "harness"
    /\ \E title \in HarnessTexts, data \in TableInputs, col_widths \in ColWidthInputs :
          HarnessReturn([helper |-> "create_table_slide", title |-> title,
                         subtitle |-> << >>, bullet_points |-> None,
                         data |-> data, col_widths |-> col_widths],
                        create_table_slide(prs, title, data, col_widths))

HarnessNext ==
    \/ HarnessTitleSlide
    \/ HarnessContentSlide
    \/ HarnessTableSlide

HelperSpec == HarnessInit /\ [][HarnessNext]_vars

-----------------------------------------------------------------------------
(* What the properties below read off a state *)

\* the lines of a text on a terminal: "\n" ends a line
RECURSIVE SplitLines(_, _)
SplitLines(s, cur) ==
    IF s = << >> THEN (IF cur = << >> THEN << >> ELSE << cur >>)
    ELSE IF Head(s) = "\n" THEN << cur >> \o SplitLines(Tail(s), << >>)
    ELSE SplitLines(Tail(s), Append(cur, Head(s)))

Lines(text) == SplitLines(text, << >>)

IsPrefix(s, t) == Len(s) <= Len(t) /\ SubSeq(t, 1, Len(s)) = s

\* the text content of a slide: its title, its bullets with their levels, the
\* texts of its table's cells
SlideContent(s) ==
    [title |-> FrameText(s.title),
     bullets |-> [q \in 1..Len(s.body) |->
                    [text |-> ParagraphText(s.body[q]), level |-> s.body[q].level]],
     cells |-> [i \in 1..Len(s.table.rows) |->
                  [j \in 1..Len(s.table.rows[i]) |->
                     FrameText(s.table.rows[i][j].text_frame)]]]

Content(slides) == [n \in 1..Len(slides) |-> SlideContent(slides[n])]

\* the slide the n-th helper call of main() makes when nothing else is there
SlideOf(n) == LastSlide(CallHelper(Presentation, MainCalls[n]).prs)

\* the final slide list: one slide per helper call of main(), in call order
FinalSlides == [n \in 1..Len(MainCalls) |-> SlideOf(n)]

\* the text content the arguments of a helper call ask for
ContentOf(c) ==
    [title |-> c.title,
     bullets |-> IF c.helper = "create_title_slide"
                 THEN << [text |-> c.subtitle, level |-> 0] >>
                 ELSE IF c.helper = "create_content_slide"
                 THEN [q \in 1..Len(c.bullet_points.v) |->
                         [text |-> c.bullet_points.v[q].text,
                          level |-> c.bullet_points.v[q].level]]
                 ELSE << >>,
     cells |-> [i \in 1..Len(c.data) |->
                  [j \in 1..Len(c.data[i]) |-> Str(c.data[i][j])]]]

\* the text content main() asks for, from its literals
MainContent == [n \in 1..Len(MainCalls) |-> ContentOf(MainCalls[n])]

\* what a successful save of this run leaves at output_file
SavedThisRun == disk[output_file] = PptxFile(prs, run)

HasBoldRun(cell) ==
    \E q \in 1..Len(cell.text_frame) :
        \E r \in 1..Len(cell.text_frame[q].runs) :
            cell.text_frame[q].runs[r].bold = "True"

AllRunsBold(cell) ==
    \A q \in 1..Len(cell.text_frame) :
        \A r \in 1..Len(cell.text_frame[q].runs) :
            cell.text_frame[q].runs[r].bold = "True"

TableCallReturned == call.helper = "create_table_slide" /\ call.exc = "None"

Rectangular(data) == \A i \in 1..Len(data) : Len(data[i]) = Len(data[1])

SomeRowLonger(data) == \E i \in 1..Len(data) : Len(data[i]) > Len(data[1])

\* col_widths asks for no column the table does not have
ColWidthsFit(c) == Truthy(c.col_widths) => Len(c.col_widths.v) <= Len(c.data[1])

\* str() of a datum, spelled out for the data the tables here hold: a str is
\* itself, 7 is "7", -12 is "-12"
StrOfDatum(x) ==
    CASE x.t = "str" -> x.s
      [] x.t = "int" /\ x.n = 7 -> << "7" >>
      [] x.t = "int" /\ x.n = -12 -> << "-", "1", "2" >>

\* cell (i, j) of the table holds str(data[i][j]) where the row has a datum,
\* and is empty where it has none
CellsHoldData(table, data) ==
    /\ Len(table.rows) = Len(data)
    /\ \A i \in 1..Len(data) :
         /\ Len(table.rows[i]) = Len(data[1])
         /\ \A j \in 1..Len(data[1]) :
              FrameText(table.rows[i][j].text_frame) =
                  IF j <= Len(data[i]) THEN StrOfDatum(data[i][j]) ELSE << >>

-----------------------------------------------------------------------------
(* C1 *)

\* C1: every helper call adds exactly one slide, so after the n-th call of
\* main() there are n slides; when main() saves there are 15, the number of its
\* helper calls; the saved file has them, and the second line printed gives 15.
C1_SlideCountIsNumberOfCalls ==
    /\ call.helper # "none" => Len(prs.slides) = Len(call.before) + 1
    /\ pc = "calls" => Len(prs.slides) = k - 1
    /\ Len(MainCalls) = 15
    /\ saves = 1 => Len(prs.slides) = 15
    /\ pc \in {"save", "print", "exit"} => Len(prs.slides) = 15
    /\ pc \in {"print", "exit"} => Len(disk[output_file].slides) = 15
    /\ pc = "exit" =>
         Lines(console)[2] = L("<U+2713> Anzahl Folien: ") \o << "1", "5" >>

C1_Witness ==
    /\ pc = "exit"
    /\ Len(prs.slides) = 15
    /\ Len(disk[output_file].slides) = 15
    /\ Lines(console)[2] = L("<U+2713> Anzahl Folien: ") \o << "1", "5" >>

-----------------------------------------------------------------------------
(* C2 *)

\* C2 as claimed: after create_table_slide returns, every cell of row 0, the
\* one with the empty text too, has a solid fill and bold text, and no cell of
\* a later row has a fill or bold text.
C2_EveryHeaderCellFilledAndBold ==
    TableCallReturned =>
        LET rows == LastSlide(prs).table.rows
        IN  /\ \A j \in 1..Len(rows[1]) :
                 rows[1][j].fill = "solid" /\ HasBoldRun(rows[1][j])
            /\ \A i \in 2..Len(rows) : \A j \in 1..Len(rows[i]) :
                 rows[i][j].fill = "None" /\ ~HasBoldRun(rows[i][j])

\* C2 amended: after create_table_slide returns, every cell of row 0 has a
\* solid fill and all of its text is bold; a header cell carries bold text
\* exactly if its text is not empty, because bold is set on the runs of the
\* cell and an empty text makes no run.  No cell of a later row has a fill or
\* bold text.
C2_HeaderFilledAndItsTextBold ==
    TableCallReturned =>
        LET rows == LastSlide(prs).table.rows
        IN  /\ \A j \in 1..Len(rows[1]) :
                 /\ rows[1][j].fill = "solid"
                 /\ AllRunsBold(rows[1][j])
                 /\ HasBoldRun(rows[1][j]) <=> Str(call.data[1][j]) # << >>
            /\ \A i \in 2..Len(rows) : \A j \in 1..Len(rows[i]) :
                 rows[i][j].fill = "None" /\ ~HasBoldRun(rows[i][j])

\* the Decision Tree confusion matrix: cell (0,0) is empty, filled and not
\* bold; cell (0,1) is filled and bold; the data rows are plain
C2_Witness ==
    /\ TableCallReturned
    /\ call.data = table_data
    /\ LastSlide(prs).table.rows[1][1].fill = "solid"
    /\ ~HasBoldRun(LastSlide(prs).table.rows[1][1])
    /\ HasBoldRun(LastSlide(prs).table.rows[1][2])
    /\ LastSlide(prs).table.rows[2][1].fill = "None"

-----------------------------------------------------------------------------
(* C3 *)

\* C3: every run that saves writes the same content: the files of any two
\* runs have the same number of slides and the same titles, bullets, levels
\* and cell texts, which are the literals of main() in call order, whatever
\* was at the output path before.
C3_SameContentEveryRun ==
    \A a \in 1..Len(outputs) :
        /\ Len(outputs[a].slides) = Len(MainCalls)
        /\ Content(outputs[a].slides) = MainContent
        /\ \A b \in 1..Len(outputs) :
             Content(outputs[a].slides) = Content(outputs[b].slides)

\* two runs saved: the files differ (the time stamp), the content does not
C3_Witness ==
    /\ Len(outputs) = 2
    /\ outputs[1] # outputs[2]
    /\ Content(outputs[1].slides) = Content(outputs[2].slides)
    /\ Len(outputs[2].slides) = 15

-----------------------------------------------------------------------------
(* C4 *)

C4_State ==
    /\ saves <= 1
    /\ saves = 1 => Len(prs.slides) = Len(MainCalls) /\ pc \in {"print", "exit", "crash"}
    /\ pc \in {"print", "exit"} => saves = 1 /\ SavedThisRun
    /\ pc \in {"Presentation", "calls", "save"} => saves = 0
    /\ pc \in {"exit", "crash"} => saves = 1

C4_Step ==
    /\ saves' = saves + 1 => pc = "save" /\ Len(prs.slides) = Len(MainCalls)
    /\ (saves = 1 /\ run' = run) => prs' = prs
    /\ disk'[other_file] = disk[other_file]
    /\ disk'[output_file] # disk[output_file] => saves' = saves + 1
    /\ (pc = "save" /\ pc' = "print") => disk'[output_file] = PptxFile(prs, run)

\* C4: a run calls prs.save exactly once by the time it ends, and only after
\* all helper calls; no slide changes after the save; a save that completes
\* writes output_file whatever was there, and no other path ever changes.
C4_SavedOnceAfterAllSlides == [](C4_State) /\ [][C4_Step]_vars

\* the second run has overwritten the file the first run wrote
C4_Witness ==
    /\ run = 2
    /\ Len(outputs) = 2
    /\ pc = "exit"
    /\ saves = 1
    /\ SavedThisRun

-----------------------------------------------------------------------------
(* C5 *)

\* C5 as claimed: a successful run prints exactly two lines.
C5_ExactlyTwoLines == pc = "exit" => Len(Lines(console)) = 2

\* C5 amended: a successful run prints ten lines: the two summary lines (the
\* output file, the number of slides), an empty line, the heading "Struktur
\* nach CRISP-DM:" and the six lines of the outline.
C5_TwoSummaryLinesThenOutline ==
    pc = "exit" =>
        LET out == Lines(console)
        IN  /\ Len(out) = 10
            /\ out[1] = L("<U+2713> Pr<U+00E4>sentation erfolgreich erstellt: ")
                          \o L(output_file)
            /\ out[2] = L("<U+2713> Anzahl Folien: ") \o IntStr(Len(prs.slides))
            /\ out[3] = << >>
            /\ out[4] = L("Struktur nach CRISP-DM:")
            /\ \A n \in 5..10 : out[n] = Prints(prs)[n - 1]

C5_Witness ==
    /\ pc = "exit"
    /\ Len(Lines(console)) = 10
    /\ Lines(console)[3] = << >>
    /\ Lines(console)[10] = L("  6. Deployment (Vorhersage)")

-----------------------------------------------------------------------------
(* C6 *)

\* C6: a save that fails ends the process: nothing is printed in that run,
\* and whenever something was printed the save of this run had completed.
C6_FailedSavePrintsNothing ==
    /\ (saves = 1 /\ ~SavedThisRun) => pc = "crash" /\ console = << >>
    /\ pc = "crash" => console = << >>
    /\ console # << >> => saves = 1 /\ SavedThisRun /\ pc \in {"print", "exit"}

\* a run whose save failed while writing
C6_Witness ==
    /\ pc = "crash"
    /\ saves = 1
    /\ disk[output_file].kind = "garbage"
    /\ disk[output_file].mtime = run
    /\ console = << >>

-----------------------------------------------------------------------------
(* C7 *)

\* C7: at every point of a run the slides are the first slides of the final
\* list, a helper call leaves the slides before it as they were and puts its
\* slide last; slide n is the one of the n-th call of main(): the first is
\* the title slide, the 8th and the 12th are the table slides, the others are
\* content slides.
C7_SlidesAppendedInCallOrder ==
    /\ IsPrefix(prs.slides, FinalSlides)
    /\ call.helper # "none" =>
         /\ IsPrefix(call.before, prs.slides)
         /\ Len(prs.slides) = Len(call.before) + 1
    /\ \A n \in 1..Len(prs.slides) :
         /\ FrameText(prs.slides[n].title) = MainCalls[n].title
         /\ prs.slides[n].layout =
              IF n = 1 THEN TitleLayout
              ELSE IF n \in {8, 12} THEN TitleOnlyLayout ELSE ContentLayout
         /\ prs.slides[n].table.present <=> n \in {8, 12}

C7_Witness ==
    /\ pc = "save"
    /\ prs.slides = FinalSlides
    /\ prs.slides[1].layout = TitleLayout
    /\ prs.slides[8].table.present
    /\ prs.slides[12].table.present
    /\ ~prs.slides[9].table.present

-----------------------------------------------------------------------------
(* C8 *)

\* C8: create_content_slide adds one slide with the title; for a non-empty
\* bullet_points its body has exactly one paragraph per bullet, in order, with
\* the bullet's text and level; for None or [] the body placeholder is as the
\* layout left it.
C8_ParagraphsAreTheBullets ==
    call.helper = "create_content_slide" =>
        LET s == LastSlide(prs)
            bp == call.bullet_points
        IN  /\ call.exc = "None"
            /\ Len(prs.slides) = Len(call.before) + 1
            /\ s.layout = ContentLayout
            /\ FrameText(s.title) = call.title
            /\ IF ~bp.isNone /\ Len(bp.v) > 0
               THEN /\ Len(s.body) = Len(bp.v)
                    /\ \A q \in 1..Len(bp.v) :
                         /\ ParagraphText(s.body[q]) = bp.v[q].text
                         /\ s.body[q].level = bp.v[q].level
               ELSE s.body = NewSlide(ContentLayout).body

\* two bullets of different levels, the first with an empty text
C8_Witness ==
    /\ call.helper = "create_content_slide"
    /\ pc = "returned"
    /\ ~call.bullet_points.isNone
    /\ Len(call.bullet_points.v) = 2
    /\ call.bullet_points.v[1].text = << >>
    /\ call.bullet_points.v[1].level # call.bullet_points.v[2].level
    /\ Len(LastSlide(prs).body) = 2

-----------------------------------------------------------------------------
(* C9 *)

\* what C9 says of a call of create_table_slide, for the calls in scope
C9_Body ==
    LET data == call.data
        table == LastSlide(prs).table
    IN  /\ Len(prs.slides) = Len(call.before) + 1
        /\ IsPrefix(call.before, prs.slides)
        /\ data = << >> => call.exc = "IndexError" /\ ~table.present
        /\ (data # << >> /\ Rectangular(data)) =>
             /\ call.exc = "None"
             /\ Len(table.columns) = Len(data[1])
             /\ CellsHoldData(table, data)
        /\ (data # << >> /\ SomeRowLonger(data)) => call.exc = "IndexError"
        /\ (data # << >> /\ ~SomeRowLonger(data)) =>
             call.exc = "None" /\ CellsHoldData(table, data)

-----------------------------------------------------------------------------
(* C10 *)

\* C10: in each create_table_slide call of main() col_widths has one entry per
\* column, so the call returns with every column's width set from it; the
\* left offset of 1.0 in plus the column widths is at most the slide width of
\* 10 in; the table was created with the width of 8.0 in, whatever the loop
\* over col_widths binds the name width to afterwards.  (1 in = 914400 EMU.)
C10_ColumnWidthsFitTheSlide ==
    call.helper = "create_table_slide" =>
        LET table == LastSlide(prs).table
            widths == call.col_widths.v
        IN  /\ call.exc = "None"
            /\ ~call.col_widths.isNone
            /\ Len(widths) = Len(call.data[1])
            /\ Len(widths) = Len(table.columns)
            /\ \A j \in 1..Len(widths) : table.columns[j] = Inches(widths[j])
            /\ table.left = 914400
            /\ prs.slide_width = 9144000
            /\ table.left + SumSeq(table.columns) <= prs.slide_width
            /\ table.width = 7315200

\* the comparison table: six columns that end exactly at the slide's edge
C10_Witness ==
    /\ call.helper = "create_table_slide"
    /\ call.data = comparison_data
    /\ Len(LastSlide(prs).table.columns) = 6
    /\ LastSlide(prs).table.left + SumSeq(LastSlide(prs).table.columns) = prs.slide_width
    /\ LastSlide(prs).table.width = 7315200

====
